---- MODULE Spec2Model ----
(***************************************************************************)
(* Treiber's stack with hazard pointers (src/stack.rs).                    *)
(*                                                                         *)
(* One thread per StackHandle.  Every access to shared memory (head, a     *)
(* hazard record, the registry lock, a node) is one step; the steps of one *)
(* handle are ordered by pc[h].  Atomics are modelled as sequentially      *)
(* consistent.  A read of memory that is not allocated returns any value.  *)
(* The element type T is opaque to the code, so the k-th push that starts  *)
(* carries the value k.                                                    *)
(***************************************************************************)
EXTENDS Integers, Sequences, FiniteSets

\* ---- bounds of the model ----
MaxHandles == 3        \* handles ever created (new + clones)
MaxNodes == 3          \* node addresses the allocator hands out
MaxPush == 3           \* push calls in one run
MaxLive == 2           \* handles in existence at the same time

Null == 0
Handles == 1..MaxHandles
Addr == 1..MaxNodes
Recs == 1..MaxHandles
NoRet == -1
None == 0

VARIABLES
    head,       \* Stack.head
    regLen,     \* length of Stack.handle_data; entry i refers to record i
    lockW,      \* handle holding the writer side of the RWLock, or 0
    lockR,      \* handles holding the reader side
    torn,       \* how many times the Stack box was dropped
    alive, ptr, \* Hazard.alive, Hazard.ptr, per record
    live,       \* node addresses currently allocated
    freedBy,    \* per address: the handle that freed it last (0: never freed)
    data, tail, \* Node.data, Node.tail, per address (blank when not allocated)
    hstate,     \* per handle: "none", "live", "dropping", "gone"
    hazard,     \* StackHandle.hazard: index of the handle's record
    to_free,    \* StackHandle.to_free
    pc,         \* per handle: position in the operation it is running
    n,          \* push: the node being pushed
    snap,       \* push/pop: local `snapshot`
    nxt,        \* pop: the value read from (*snapshot).tail
    scanned,    \* gc: local `snapshot`, the addresses collected so far
    idx,        \* gc/clone: position of the registry iterator
    ret,        \* result of the handle's latest pop (NoRet: none yet / running)
    abs,        \* history: values in the order of the successful head CASes
    expect,     \* history: top of abs when the handle's pop CAS succeeded
    nextVal,    \* history: push calls started
    npop,       \* history: pop calls completed with a value
    popped,     \* history: values returned by pops
    peak        \* history: most handles in existence at the same time so far

vars == <<head, regLen, lockW, lockR, torn, alive, ptr, live, freedBy, data, tail,
          hstate, hazard, to_free, pc, n, snap, nxt, scanned, idx, ret,
          abs, expect, nextVal, npop, popped, peak>>

stackVars == <<head, regLen, lockW, lockR, torn>>
hazVars == <<alive, ptr>>
nodeVars == <<live, freedBy, data, tail>>
histVars == <<abs, expect, nextVal, npop, popped, peak>>

\* StackHandle::new: one record in the registry, empty head, empty to_free.
Init ==
    /\ head = Null
    /\ regLen = 1
    /\ lockW = 0
    /\ lockR = {}
    /\ torn = 0
    /\ alive = [r \in Recs |-> r = 1]
    /\ ptr = [r \in Recs |-> Null]
    /\ live = {}
    /\ freedBy = [a \in Addr |-> 0]
    /\ data = [a \in Addr |-> 0]
    /\ tail = [a \in Addr |-> Null]
    /\ hstate = [h \in Handles |-> IF h = 1 THEN "live" ELSE "none"]
    /\ hazard = [h \in Handles |-> IF h = 1 THEN 1 ELSE 0]
    /\ to_free = [h \in Handles |-> <<>>]
    /\ pc = [h \in Handles |-> "idle"]
    /\ n = [h \in Handles |-> Null]
    /\ snap = [h \in Handles |-> Null]
    /\ nxt = [h \in Handles |-> Null]
    /\ scanned = [h \in Handles |-> {}]
    /\ idx = [h \in Handles |-> 0]
    /\ ret = [h \in Handles |-> NoRet]
    /\ abs = <<>>
    /\ expect = [h \in Handles |-> 0]
    /\ nextVal = 0
    /\ npop = 0
    /\ popped = {}
    /\ peak = 1

PushPcs == {"push_load", "push_cas"}
PopPcs == {"pop_load", "pop_publish", "pop_readtail", "pop_cas", "pop_data", "pop_clear",
           "pop_ret"}

\* history: push calls completed (every started push is completed or running)
npush == nextVal - Cardinality({h \in Handles : pc[h] \in PushPcs})

\* A handle its owner may start an operation on.
Ready(h) == hstate[h] = "live" /\ pc[h] = "idle"

\* What a load of a node link yields: the field if the node is allocated,
\* anything if it is not.
ReadTail(a) == IF a \in live THEN {tail[a]} ELSE Addr \cup {Null}
ReadData(a) == IF a \in live THEN {data[a]} ELSE 1..MaxPush

\* ---------------------------------------------------------------- push
\* The addresses the allocator may return: any freed one, or a never used one
\* (the never used ones are interchangeable, so the least stands for all).
NeverUsed == {a \in Addr \ live : freedBy[a] = 0}
Fresh == {a \in Addr \ live : freedBy[a] # 0 \/ \A b \in NeverUsed : a <= b}

\* box Node { data: val, tail: null }
PushAlloc(h) ==
    /\ Ready(h)
    /\ nextVal < MaxPush
    /\ \E a \in Fresh :
        /\ live' = live \cup {a}
        /\ freedBy' = [freedBy EXCEPT ![a] = 0]
        /\ data' = [data EXCEPT ![a] = nextVal + 1]
        /\ tail' = [tail EXCEPT ![a] = Null]
        /\ n' = [n EXCEPT ![h] = a]
    /\ nextVal' = nextVal + 1
    /\ pc' = [pc EXCEPT ![h] = "push_load"]
    /\ UNCHANGED <<stackVars, hazVars, hstate, hazard, to_free, snap, nxt, scanned, idx,
                   ret, abs, expect, npop, popped, peak>>

\* PushLoad without the store to (*n).tail: the new node is never linked to the
\* nodes below it.
PushLoadNoLink(h) ==
    /\ pc[h] = "push_load"
    /\ snap' = [snap EXCEPT ![h] = head]
    /\ pc' = [pc EXCEPT ![h] = "push_cas"]
    /\ UNCHANGED <<stackVars, hazVars, nodeVars, hstate, hazard, to_free, n, nxt,
                   scanned, idx, ret, histVars>>

\* snapshot = head.load(); (*n).tail = snapshot
PushLoad(h) ==
    /\ pc[h] = "push_load"
    /\ snap' = [snap EXCEPT ![h] = head]
    /\ tail' = [tail EXCEPT ![n[h]] = head]
    /\ pc' = [pc EXCEPT ![h] = "push_cas"]
    /\ UNCHANGED <<stackVars, hazVars, live, freedBy, data, hstate, hazard, to_free, n, nxt,
                   scanned, idx, ret, histVars>>

\* PushCas as a plain store: head is overwritten whatever it holds.
PushCasBlind(h) ==
    /\ pc[h] = "push_cas"
    /\ head' = n[h]
    /\ abs' = <<data[n[h]]>> \o abs
    /\ n' = [n EXCEPT ![h] = Null]
    /\ snap' = [snap EXCEPT ![h] = Null]
    /\ pc' = [pc EXCEPT ![h] = "idle"]
    /\ UNCHANGED <<regLen, lockW, lockR, torn, hazVars, nodeVars, hstate, hazard, to_free,
                   nxt, scanned, idx, ret, expect, nextVal, npop, popped, peak>>

\* head.compare_and_swap(snapshot, n) == snapshot ? return : loop
PushCas(h) ==
    /\ pc[h] = "push_cas"
    /\ IF head = snap[h]
       THEN /\ head' = n[h]
            /\ abs' = <<data[n[h]]>> \o abs
            /\ n' = [n EXCEPT ![h] = Null]
            /\ snap' = [snap EXCEPT ![h] = Null]
            /\ pc' = [pc EXCEPT ![h] = "idle"]
       ELSE /\ pc' = [pc EXCEPT ![h] = "push_load"]
            /\ UNCHANGED <<head, abs, n, snap>>
    /\ UNCHANGED <<regLen, lockW, lockR, torn, hazVars, nodeVars, hstate, hazard, to_free,
                   nxt, scanned, idx, ret, expect, nextVal, npop, popped, peak>>

\* ---------------------------------------------------------------- pop
\* PopLoad without the is_null test: a null snapshot is published and used.
PopLoadNoNullCheck(h) ==
    /\ \/ Ready(h) /\ npop <= MaxPush
       \/ pc[h] = "pop_load"
    /\ snap' = [snap EXCEPT ![h] = head]
    /\ pc' = [pc EXCEPT ![h] = "pop_publish"]
    /\ UNCHANGED <<stackVars, hazVars, nodeVars, hstate, hazard, to_free, n, nxt, scanned,
                   idx, ret, histVars>>

\* snapshot = head.load(); if snapshot.is_null() { return None }
PopLoad(h) ==
    /\ \/ Ready(h) /\ npop <= MaxPush
       \/ pc[h] = "pop_load"
    /\ snap' = [snap EXCEPT ![h] = head]
    /\ IF head = Null
       THEN /\ ret' = [ret EXCEPT ![h] = None]
            /\ pc' = [pc EXCEPT ![h] = "pop_ret"]
       ELSE /\ ret' = ret
            /\ pc' = [pc EXCEPT ![h] = "pop_publish"]
    /\ UNCHANGED <<stackVars, hazVars, nodeVars, hstate, hazard, to_free, n, nxt, scanned,
                   idx, histVars>>

\* (*self.hazard).ptr.store(snapshot)
PopPublish(h) ==
    /\ pc[h] = "pop_publish"
    /\ ptr' = [ptr EXCEPT ![hazard[h]] = snap[h]]
    /\ pc' = [pc EXCEPT ![h] = "pop_readtail"]
    /\ UNCHANGED <<stackVars, alive, nodeVars, hstate, hazard, to_free, n, snap, nxt,
                   scanned, idx, ret, histVars>>

\* the argument (*snapshot).tail of the compare_and_swap
PopReadTail(h) ==
    /\ pc[h] = "pop_readtail"
    /\ \E t \in ReadTail(snap[h]) : nxt' = [nxt EXCEPT ![h] = t]
    /\ pc' = [pc EXCEPT ![h] = "pop_cas"]
    /\ UNCHANGED <<stackVars, hazVars, nodeVars, hstate, hazard, to_free, n, snap,
                   scanned, idx, ret, histVars>>

\* head.compare_and_swap(snapshot, tail) == snapshot
PopCas(h) ==
    /\ pc[h] = "pop_cas"
    /\ IF head = snap[h]
       THEN /\ head' = nxt[h]
            /\ expect' = [expect EXCEPT ![h] = IF abs = <<>> THEN 0 ELSE Head(abs)]
            /\ abs' = IF abs = <<>> THEN abs ELSE Tail(abs)
            /\ pc' = [pc EXCEPT ![h] = "pop_data"]
       ELSE /\ pc' = [pc EXCEPT ![h] = "pop_clear"]
            /\ UNCHANGED <<head, expect, abs>>
    /\ UNCHANGED <<regLen, lockW, lockR, torn, hazVars, nodeVars, hstate, hazard, to_free,
                   n, snap, nxt, scanned, idx, ret, nextVal, npop, popped, peak>>

\* PopData that drops the node at once in place of to_free.push(snapshot).
PopDataFree(h) ==
    /\ pc[h] = "pop_data"
    /\ \E d \in ReadData(snap[h]) :
        /\ ret' = [ret EXCEPT ![h] = d]
        /\ popped' = popped \cup {d}
    /\ live' = live \ {snap[h]}
    /\ freedBy' = [freedBy EXCEPT ![snap[h]] = h]
    /\ data' = [data EXCEPT ![snap[h]] = 0]
    /\ tail' = [tail EXCEPT ![snap[h]] = Null]
    /\ npop' = npop + 1
    /\ snap' = [snap EXCEPT ![h] = Null]
    /\ nxt' = [nxt EXCEPT ![h] = Null]
    /\ pc' = [pc EXCEPT ![h] = "pop_ret"]
    /\ UNCHANGED <<stackVars, hazVars, hstate, hazard, to_free, n, scanned,
                   idx, abs, expect, nextVal, peak>>

\* data = ptr::read(&(*snapshot).data); self.to_free.push(snapshot); return Some(data)
PopData(h) ==
    /\ pc[h] = "pop_data"
    /\ \E d \in ReadData(snap[h]) :
        /\ ret' = [ret EXCEPT ![h] = d]
        /\ popped' = popped \cup {d}
    /\ to_free' = [to_free EXCEPT ![h] = Append(@, snap[h])]
    /\ npop' = npop + 1
    /\ snap' = [snap EXCEPT ![h] = Null]
    /\ nxt' = [nxt EXCEPT ![h] = Null]
    /\ pc' = [pc EXCEPT ![h] = "pop_ret"]
    /\ UNCHANGED <<stackVars, hazVars, nodeVars, hstate, hazard, n, scanned,
                   idx, abs, expect, nextVal, peak>>

\* the caller has the result
PopReturn(h) ==
    /\ pc[h] = "pop_ret"
    /\ ret' = [ret EXCEPT ![h] = NoRet]
    /\ expect' = [expect EXCEPT ![h] = 0]
    /\ pc' = [pc EXCEPT ![h] = "idle"]
    /\ UNCHANGED <<stackVars, hazVars, nodeVars, hstate, hazard, to_free, n, snap, nxt,
                   scanned, idx, abs, nextVal, npop, popped, peak>>

\* PopClear that goes back to the hazard store: the loop is repeated with the
\* old snapshot, head is not read again.
PopClearNoReload(h) ==
    /\ pc[h] = "pop_clear"
    /\ ptr' = [ptr EXCEPT ![hazard[h]] = Null]
    /\ pc' = [pc EXCEPT ![h] = "pop_publish"]
    /\ UNCHANGED <<stackVars, alive, nodeVars, hstate, hazard, to_free, n, snap, nxt,
                   scanned, idx, ret, histVars>>

\* (*self.hazard).ptr.store(null) after a failed compare_and_swap
PopClear(h) ==
    /\ pc[h] = "pop_clear"
    /\ ptr' = [ptr EXCEPT ![hazard[h]] = Null]
    /\ snap' = [snap EXCEPT ![h] = Null]
    /\ nxt' = [nxt EXCEPT ![h] = Null]
    /\ pc' = [pc EXCEPT ![h] = "pop_load"]
    /\ UNCHANGED <<stackVars, alive, nodeVars, hstate, hazard, to_free, n,
                   scanned, idx, ret, histVars>>

\* ---------------------------------------------------------------- RWLock
\* The lock lives in the Stack box: once the box is dropped its words are
\* garbage and an acquisition may go through whatever the lock's state was.
CanRead == lockW = 0 \/ torn > 0
CanWrite == (lockW = 0 /\ lockR = {}) \/ torn > 0

\* ---------------------------------------------------------------- gc
\* handle_data.read() once to_free is known to be non-empty
GcEnter(h) ==
    /\ to_free[h] # <<>>
    /\ CanRead
    /\ lockR' = lockR \cup {h}
    /\ idx' = [idx EXCEPT ![h] = 1]
    /\ scanned' = [scanned EXCEPT ![h] = {}]
    /\ pc' = [pc EXCEPT ![h] = "gc_scan"]
    /\ UNCHANGED <<head, regLen, lockW, torn, hazVars, nodeVars, hstate, hazard, to_free,
                   n, snap, nxt, ret, histVars>>

\* gc() called by the owner: if self.to_free.is_empty() { return }
Gc(h) ==
    /\ Ready(h)
    /\ IF to_free[h] = <<>> THEN UNCHANGED vars ELSE GcEnter(h)

\* ScanRead that passes over the caller's own record.
ScanReadOthers(h) ==
    IF torn = 0
    THEN {IF alive[idx[h]] /\ idx[h] # hazard[h]
          THEN scanned[h] \cup {ptr[idx[h]]} ELSE scanned[h]}
    ELSE {scanned[h]} \cup {scanned[h] \cup {a} : a \in Addr}

\* What one iteration of the filter_map adds to the snapshot.
ScanRead(h) ==
    IF torn = 0
    THEN {IF alive[idx[h]] THEN scanned[h] \cup {ptr[idx[h]]} ELSE scanned[h]}
    ELSE {scanned[h]} \cup {scanned[h] \cup {a} : a \in Addr}

\* one iteration of handle_data.iter().filter_map(..)
GcScan(h) ==
    /\ pc[h] = "gc_scan"
    /\ idx[h] <= regLen
    /\ \E s \in ScanRead(h) : scanned' = [scanned EXCEPT ![h] = s]
    /\ idx' = [idx EXCEPT ![h] = idx[h] + 1]
    /\ UNCHANGED <<stackVars, hazVars, nodeVars, hstate, hazard, to_free, pc, n, snap, nxt,
                   ret, histVars>>

\* Protected with the snapshot ignored: gc frees every retired node.
ProtectedNever(h, a) == FALSE

\* snapshot.iter().any(|other| *other == h)
Protected(h, a) == a \in scanned[h]
Kept(h) == SelectSeq(to_free[h], LAMBDA a : Protected(h, a))
Reclaimed(h) == {to_free[h][i] : i \in {j \in 1..Len(to_free[h]) : ~Protected(h, to_free[h][j])}}

\* the read guard is released, then the retire list is partitioned and the
\* unprotected nodes are dropped
GcSweep(h) ==
    /\ pc[h] = "gc_scan"
    /\ idx[h] > regLen
    /\ lockR' = lockR \ {h}
    /\ to_free' = [to_free EXCEPT ![h] = Kept(h)]
    /\ live' = live \ Reclaimed(h)
    /\ freedBy' = [a \in Addr |-> IF a \in Reclaimed(h) THEN h ELSE freedBy[a]]
    /\ data' = [a \in Addr |-> IF a \in Reclaimed(h) THEN 0 ELSE data[a]]
    /\ tail' = [a \in Addr |-> IF a \in Reclaimed(h) THEN Null ELSE tail[a]]
    /\ scanned' = [scanned EXCEPT ![h] = {}]
    /\ idx' = [idx EXCEPT ![h] = 0]
    /\ pc' = [pc EXCEPT ![h] = IF hstate[h] = "dropping" THEN "drop_gc" ELSE "idle"]
    /\ UNCHANGED <<head, regLen, lockW, torn, hazVars, hstate, hazard, n, snap,
                   nxt, ret, histVars>>

\* ---------------------------------------------------------------- clone
\* The handles in existence: created or cloned, and their drop has not returned.
Existing == {c \in Handles : hstate[c] \in {"live", "dropping"}}

\* Fewer than MaxLive handles exist, so one more may be cloned.
Room == Cardinality(Existing) < MaxLive

NewHandle == CHOOSE c \in Handles : hstate[c] = "none" /\ \A d \in 1..(c - 1) : hstate[d] # "none"

\* handle_data.write()
CloneLock(h) ==
    /\ Ready(h)
    /\ \E c \in Handles : hstate[c] = "none"
    /\ CanWrite
    /\ lockW' = h
    /\ idx' = [idx EXCEPT ![h] = 1]
    /\ pc' = [pc EXCEPT ![h] = "clone_scan"]
    /\ UNCHANGED <<head, regLen, lockR, torn, hazVars, nodeVars, hstate, hazard, to_free,
                   n, snap, nxt, scanned, ret, histVars>>

\* the StackHandle the clone returns; the write guard is released
Bind(h, r) ==
    /\ hstate' = [hstate EXCEPT ![NewHandle] = "live"]
    /\ hazard' = [hazard EXCEPT ![NewHandle] = r]
    /\ lockW' = 0
    /\ idx' = [idx EXCEPT ![h] = 0]
    /\ pc' = [pc EXCEPT ![h] = "idle"]
    /\ peak' = IF Cardinality(Existing) + 1 > peak THEN Cardinality(Existing) + 1 ELSE peak

\* CloneScan without the test of the alive flag: the first record is taken.
CloneScanAny(h) ==
    /\ pc[h] = "clone_scan"
    /\ idx[h] <= regLen
    /\ ptr' = [ptr EXCEPT ![idx[h]] = Null]
    /\ alive' = [alive EXCEPT ![idx[h]] = TRUE]
    /\ Bind(h, idx[h])
    /\ UNCHANGED <<head, regLen, lockR, torn, nodeVars, to_free, n, snap, nxt, scanned,
                   ret, abs, expect, nextVal, npop, popped>>

\* one iteration of the search for a reusable record
CloneScan(h) ==
    /\ pc[h] = "clone_scan"
    /\ idx[h] <= regLen
    /\ IF ~alive[idx[h]]
       THEN /\ ptr' = [ptr EXCEPT ![idx[h]] = Null]
            /\ alive' = [alive EXCEPT ![idx[h]] = TRUE]
            /\ Bind(h, idx[h])
       ELSE /\ idx' = [idx EXCEPT ![h] = idx[h] + 1]
            /\ UNCHANGED <<hazVars, hstate, hazard, lockW, pc, peak>>
    /\ UNCHANGED <<head, regLen, lockR, torn, nodeVars, to_free, n, snap, nxt, scanned,
                   ret, abs, expect, nextVal, npop, popped>>

\* CloneAppend without the search before it: every clone makes a new record.
CloneAppendNoScan(h) ==
    /\ pc[h] = "clone_scan"
    /\ regLen < MaxHandles
    /\ regLen' = regLen + 1
    /\ ptr' = [ptr EXCEPT ![regLen + 1] = Null]
    /\ alive' = [alive EXCEPT ![regLen + 1] = TRUE]
    /\ Bind(h, regLen + 1)
    /\ UNCHANGED <<head, lockR, torn, nodeVars, to_free, n, snap, nxt, scanned,
                   ret, abs, expect, nextVal, npop, popped>>

\* no luck, make a new one: handle_data.push(into_ptr(Hazard::new()))
CloneAppend(h) ==
    /\ pc[h] = "clone_scan"
    /\ idx[h] > regLen
    /\ regLen < MaxHandles
    /\ regLen' = regLen + 1
    /\ ptr' = [ptr EXCEPT ![regLen + 1] = Null]
    /\ alive' = [alive EXCEPT ![regLen + 1] = TRUE]
    /\ Bind(h, regLen + 1)
    /\ UNCHANGED <<head, lockR, torn, nodeVars, to_free, n, snap, nxt, scanned,
                   ret, abs, expect, nextVal, npop, popped>>

\* ---------------------------------------------------------------- drop
\* (*self.hazard).alive.store(false)
DropMark(h) ==
    /\ Ready(h)
    /\ alive' = [alive EXCEPT ![hazard[h]] = FALSE]
    /\ hstate' = [hstate EXCEPT ![h] = "dropping"]
    /\ pc' = [pc EXCEPT ![h] = "drop_gc"]
    /\ UNCHANGED <<stackVars, ptr, nodeVars, hazard, to_free, n, snap, nxt, scanned, idx,
                   ret, histVars>>

\* while !self.to_free.is_empty() { self.gc() }
DropGc(h) ==
    /\ pc[h] = "drop_gc"
    /\ GcEnter(h)

\* the loop is left; handle_data.write()
DropLock(h) ==
    /\ pc[h] = "drop_gc"
    /\ to_free[h] = <<>>
    /\ CanWrite
    /\ lockW' = h
    /\ pc' = [pc EXCEPT ![h] = "drop_check"]
    /\ UNCHANGED <<head, regLen, lockR, torn, hazVars, nodeVars, hstate, hazard, to_free,
                   n, snap, nxt, scanned, idx, ret, histVars>>

AllDead == \A r \in 1..regLen : ~alive[r]

\* CheckRead with any() for all(): one dead record is enough.
CheckReadAny == IF torn = 0 THEN {\E r \in 1..regLen : ~alive[r]} ELSE BOOLEAN

\* What handle_data.iter().all(|h| !alive) yields.
CheckRead == IF torn = 0 THEN {AllDead} ELSE BOOLEAN

\* if all dead { drop(stack) }
DropCheck(h) ==
    /\ pc[h] = "drop_check"
    /\ \E d \in CheckRead : torn' = IF d THEN torn + 1 ELSE torn
    /\ pc' = [pc EXCEPT ![h] = "drop_unlock"]
    /\ UNCHANGED <<head, regLen, lockW, lockR, hazVars, nodeVars, hstate, hazard, to_free,
                   n, snap, nxt, scanned, idx, ret, histVars>>

\* the write guard goes out of scope at the end of drop
DropUnlock(h) ==
    /\ pc[h] = "drop_unlock"
    /\ lockW' = 0
    /\ hstate' = [hstate EXCEPT ![h] = "gone"]
    /\ pc' = [pc EXCEPT ![h] = "done"]
    /\ UNCHANGED <<head, regLen, lockR, torn, hazVars, nodeVars, hazard, to_free, n, snap,
                   nxt, scanned, idx, ret, histVars>>

\* ---------------------------------------------------------------- specifications
Next ==
    \E h \in Handles :
        \/ PushAlloc(h) \/ PushLoad(h) \/ PushCas(h)
        \/ PopLoad(h) \/ PopPublish(h) \/ PopReadTail(h) \/ PopCas(h) \/ PopData(h)
        \/ PopClear(h) \/ PopReturn(h)
        \/ Gc(h) \/ GcScan(h) \/ GcSweep(h)
        \/ CloneLock(h) /\ Room
        \/ CloneScan(h) \/ CloneAppend(h)
        \/ DropMark(h) \/ DropGc(h) \/ DropLock(h) \/ DropCheck(h) \/ DropUnlock(h)

\* Any interleaving of the handles' steps.
Spec == Init /\ [][Next]_vars

\* The next step of the operation handle h is inside (the start of an operation
\* is the caller's choice and is no such step).
Step(h) ==
    /\ pc[h] # "idle"
    /\ \/ PushLoad(h) \/ PushCas(h)
       \/ PopLoad(h) \/ PopPublish(h) \/ PopReadTail(h) \/ PopCas(h) \/ PopData(h)
       \/ PopClear(h) \/ PopReturn(h)
       \/ GcScan(h) \/ GcSweep(h)
       \/ CloneScan(h) \/ CloneAppend(h)
       \/ DropGc(h) \/ DropLock(h) \/ DropCheck(h) \/ DropUnlock(h)

\* Any interleaving in which every thread is scheduled again and again: a
\* handle inside an operation takes its next step, and one that waits for the
\* registry lock gets it when the lock is free again and again.
SpecFair == Init /\ [][Next]_vars /\ \A h \in Handles : SF_vars(Step(h))

\* One thread uses all the handles: an operation starts only when no other
\* handle is inside one.  No compare-and-exchange of a pop fails then.
Quiet(h) == \A g \in Handles \ {h} : pc[g] \in {"idle", "done"}

NextSeq ==
    \E h \in Handles :
        \/ PushAlloc(h) /\ Quiet(h)
        \/ PushLoad(h) \/ PushCas(h)
        \/ PopLoad(h) /\ Quiet(h)
        \/ PopPublish(h) \/ PopReadTail(h) \/ PopCas(h) \/ PopData(h) \/ PopReturn(h)
        \/ Gc(h) /\ Quiet(h)
        \/ GcScan(h) \/ GcSweep(h)
        \/ CloneLock(h) /\ Room /\ Quiet(h)
        \/ CloneScan(h) \/ CloneAppend(h)
        \/ DropMark(h) /\ Quiet(h)
        \/ DropGc(h) \/ DropLock(h) \/ DropCheck(h) \/ DropUnlock(h)

SpecSeq == Init /\ [][NextSeq]_vars

\* No pop has returned a value and none is running.
NoPopYet == npop = 0 /\ \A h \in Handles : pc[h] \notin PopPcs

\* The first handle pushes, then pops, with gc calls at any time between its
\* operations; it is cloned, and the clones are dropped, concurrently, but no
\* other handle pushes or pops.
NextLifo ==
    \/ PushAlloc(1) /\ NoPopYet
    \/ PushLoad(1) \/ PushCas(1)
    \/ PopLoad(1) \/ PopPublish(1) \/ PopReadTail(1) \/ PopCas(1) \/ PopData(1)
    \/ PopReturn(1)
    \/ Gc(1) \/ GcScan(1) \/ GcSweep(1)
    \/ CloneLock(1) /\ Room
    \/ CloneScan(1) \/ CloneAppend(1)
    \/ \E h \in Handles \ {1} :
          DropMark(h) \/ DropLock(h) \/ DropCheck(h) \/ DropUnlock(h)

SpecLifo == Init /\ [][NextLifo]_vars

\* Handles are cloned and push concurrently; once a pop has started, no push
\* and no clone starts any more, and a pop starts only when every other handle
\* is idle (the sequential drain).
NextDrain ==
    \E h \in Handles :
        \/ PushAlloc(h) /\ NoPopYet
        \/ PushLoad(h) \/ PushCas(h)
        \/ CloneLock(h) /\ Room /\ NoPopYet
        \/ CloneScan(h) \/ CloneAppend(h)
        \/ PopLoad(h) /\ Quiet(h)
        \/ PopPublish(h) \/ PopReadTail(h) \/ PopCas(h) \/ PopData(h) \/ PopReturn(h)

SpecDrain == Init /\ [][NextDrain]_vars

\* The handles are only cloned and dropped, as many at a time as there are
\* handles (no push, no pop, so every retire list stays empty).
NextReg ==
    \E h \in Handles :
        \/ CloneLock(h) \/ CloneScan(h) \/ CloneAppend(h)
        \/ DropMark(h) \/ DropLock(h) \/ DropCheck(h) \/ DropUnlock(h)

SpecReg == Init /\ [][NextReg]_vars

\* The handles are cloned and push, pop and call gc concurrently; none is
\* dropped.  No fairness: any handle may stop for ever at any step.
NextOps ==
    \E h \in Handles :
        \/ PushAlloc(h) \/ PushLoad(h) \/ PushCas(h)
        \/ PopLoad(h) \/ PopPublish(h) \/ PopReadTail(h) \/ PopCas(h) \/ PopData(h)
        \/ PopClear(h) \/ PopReturn(h)
        \/ Gc(h) \/ GcScan(h) \/ GcSweep(h)
        \/ CloneLock(h) /\ Room
        \/ CloneScan(h) \/ CloneAppend(h)

SpecOps == Init /\ [][NextOps]_vars

\* ---------------------------------------------------------------- observations
\* The nodes met by following head and the tail links (a corrupted chain may
\* loop, so the walk stops after MaxNodes + 1 links).
RECURSIVE ChainFrom(_, _)
ChainFrom(a, k) == IF a = Null \/ k = 0 THEN <<>> ELSE <<a>> \o ChainFrom(tail[a], k - 1)
Chain == ChainFrom(head, MaxNodes + 1)
ChainNodes == {Chain[i] : i \in 1..Len(Chain)}
ChainVals == [i \in 1..Len(Chain) |-> data[Chain[i]]]

\* A node that some handle other than h has dropped and that is not allocated again.
FreedByOther(h, a) == a \in Addr /\ a \notin live /\ freedBy[a] \notin {0, h}

\* The step in which h reads a field of the node `snapshot`.
ReadsNode(h) ==
    \/ pc[h] = "pop_readtail" /\ pc'[h] = "pop_cas"
    \/ pc[h] = "pop_data" /\ pc'[h] = "pop_ret"

\* The records gc's filter_map would let through now.
Publishes(a) == \E r \in 1..regLen : alive[r] /\ ptr[r] = a

\* No push or pop is in progress.
Quiescent == \A h \in Handles : pc[h] \notin PushPcs \cup PopPcs

\* ---------------------------------------------------------------- claims
\* C1: no handle reads a node (its tail for the compare-and-exchange argument,
\* or its data after a successful pop) that another handle has freed.
C1_NoReadAfterFree ==
    [][\A h \in Handles : ReadsNode(h) => ~FreedByOther(h, snap[h])]_vars

\* C2: when gc frees a node, no record marked alive publishes its address.
C2_FreedNotPublished ==
    [][\A a \in Addr : (a \in live /\ a \notin live') => ~Publishes(a)]_vars

\* C3: the successful compare-and-exchanges on head keep the stack equal to
\* the sequential LIFO stack abs: the values linked from head are abs, and a
\* pop returns the value that was on top of abs at its compare-and-exchange.
C3_SequentialLifo ==
    /\ ChainVals = abs
    /\ \A h \in Handles : (pc[h] = "pop_ret" /\ ret[h] # None) => ret[h] = expect[h]

\* C5: no node reachable from head by tail links has been reclaimed.
C5_ReachableNotFreed == ChainNodes \subseteq live

\* C6: at a quiescent point, pushes completed = value-returning pops
\* completed + nodes reachable from head.
C6_Conservation == Quiescent => npush = npop + Len(Chain)

\* C4: after N pushes on one handle (values 1..N in push order) the k-th pop
\* returns N + 1 - k, and a pop returns empty only when N pops have returned
\* values.
C4_ReversePushOrder ==
    pc[1] = "pop_ret" =>
        IF ret[1] = None THEN npop = npush ELSE ret[1] = npush - npop + 1

\* the third pop of three pushes has returned the value pushed first
C4_Witness == pc[1] = "pop_ret" /\ ret[1] = 1 /\ npop = 3

GcReturns(h) == pc[h] = "gc_scan" /\ pc'[h] = "idle"

\* Nothing has been freed so far: the state is one that push/pop cycles reach
\* without any gc call that freed a node.
NoneFreedYet == Cardinality(live) = nextVal

\* C8 as stated: the first gc after push/pop cycles leaves the retire list
\* empty and the nodes reachable from head untouched.
C8_GcEmptiesRetireList ==
    [][\A h \in Handles : (GcReturns(h) /\ NoneFreedYet) =>
          /\ to_free'[h] = <<>>
          /\ Chain' = Chain
          /\ ChainNodes \subseteq live']_vars

\* C8 amended: that gc leaves in the retire list only the node the handle's own
\* hazard record publishes (at most one, the node of its latest successful pop),
\* frees every other retired node, and leaves the reachable nodes untouched.
C8_GcKeepsOnlyOwnHazard ==
    [][\A h \in Handles : (GcReturns(h) /\ NoneFreedYet) =>
          /\ to_free'[h] = SelectSeq(to_free[h], LAMBDA a : a = ptr[hazard[h]])
          /\ Len(to_free'[h]) <= 1
          /\ \A i \in 1..Len(to_free[h]) :
                to_free[h][i] # ptr[hazard[h]] => to_free[h][i] \notin live'
          /\ Chain' = Chain
          /\ ChainVals' = ChainVals
          /\ ChainNodes \subseteq live']_vars

\* after three pushes and two pops one gc has freed the node popped first, kept
\* the node popped last, and left the third node on the stack
C8_Witness ==
    \E h \in Handles :
        /\ Ready(h)
        /\ nextVal = 3
        /\ Cardinality(live) = 2
        /\ Len(to_free[h]) = 1
        /\ to_free[h][1] = ptr[hazard[h]]
        /\ \E a \in Addr : a \notin live /\ freedBy[a] = h
        /\ Len(Chain) = 1

\* The step in which pop loads head, and the step in which pop returns empty.
LoadsHead(h) == pc[h] \in {"idle", "pop_load"} /\ pc'[h] \in {"pop_publish", "pop_ret"}
ReturnsEmpty(h) == pc[h] # "pop_ret" /\ pc'[h] = "pop_ret" /\ ret'[h] = None

\* C9: pop returns empty exactly when the head it last read is null, and then
\* it changes neither head nor its retire list and frees nothing.
C9_EmptyPop ==
    [][\A h \in Handles :
          /\ LoadsHead(h) => (snap'[h] = head /\ (ReturnsEmpty(h) <=> snap'[h] = Null))
          /\ ReturnsEmpty(h) =>
                /\ LoadsHead(h)
                /\ head' = head
                /\ to_free' = to_free
                /\ live' = live]_vars

\* a pop has returned empty after the stack was emptied by a pop, with a
\* non-empty retire list
C9_Witness ==
    \E h \in Handles : pc[h] = "pop_ret" /\ ret[h] = None /\ npop > 0 /\ to_free[h] # <<>>

\* C10: the Stack box is dropped only in a state where every registry entry is
\* marked dead and no handle exists that has not begun its drop.
C10_TeardownAllDead ==
    [][torn' # torn =>
          /\ \A r \in 1..regLen : ~alive[r]
          /\ \A h \in Handles : hstate[h] # "live"]_vars

\* the box has been dropped with two records in the registry
C10_Witness == torn = 1 /\ regLen = 2 /\ \A h \in Handles : hstate[h] \in {"gone", "none"}

\* The step in which a clone returns the handle c bound to record r.
Binds(c, r) == hstate[c] = "none" /\ hstate'[c] = "live" /\ hazard'[c] = r

\* The handles that have not begun their drop and hold record r.
Holders(r) == {h \in Handles : hstate[h] = "live" /\ hazard[h] = r}

\* C11: at most one handle that has not begun its drop holds a given hazard
\* record (so no two clones get the same record), and a clone hands out a
\* record of the registry only if it is marked dead and its previous holder
\* has begun its drop.
C11_OneLiveOwner ==
    /\ [](\A r \in 1..regLen : Cardinality(Holders(r)) <= 1)
    /\ [][\A c \in Handles : \A r \in 1..regLen :
              Binds(c, r) => (~alive[r] /\ Holders(r) = {})]_vars

\* a record has been handed to a new handle while its previous holder is still
\* inside drop
C11_Witness ==
    \E c \in Handles : \E g \in Handles \ {c} :
        /\ hstate[c] = "live"
        /\ hstate[g] = "dropping"
        /\ hazard[c] = hazard[g]
        /\ alive[hazard[c]]

\* The step in which the search of a clone moves past a record.
ScanPasses(h) == pc[h] = "clone_scan" /\ pc'[h] = "clone_scan" /\ idx'[h] = idx[h] + 1

\* C12 as stated: the registry never shrinks, it is never longer than the most
\* handles that existed at the same time, and a record is appended only in a
\* state where no entry is marked dead.
C12_AppendOnlyIfNoneDead ==
    /\ [](regLen <= peak)
    /\ [][/\ regLen' >= regLen
          /\ regLen' > regLen => \A r \in 1..regLen : alive[r]]_vars

\* C12 amended: the registry never shrinks, it is never longer than the most
\* handles that existed at the same time (drop not yet returned), the search
\* moves past a record only if it read it alive, a record is appended only
\* after the search has moved past every entry, and otherwise the first entry
\* the search read dead is recycled.
C12_AppendAfterScan ==
    /\ [](regLen <= peak)
    /\ [][/\ regLen' >= regLen
          /\ \A h \in Handles : ScanPasses(h) => alive[idx[h]]
          /\ regLen' > regLen =>
                /\ regLen' = regLen + 1
                /\ \E h \in Handles : pc[h] = "clone_scan" /\ idx[h] = regLen + 1
          /\ \A c \in Handles : \A r \in 1..regLen :
                Binds(c, r) => (~alive[r] /\ \E h \in Handles : pc[h] = "clone_scan" /\ idx[h] = r)]_vars

\* a third record has been appended although the second was marked dead while
\* the search was running
C12_Witness ==
    /\ regLen = 3
    /\ ~alive[2]
    /\ hstate[2] = "dropping"
    /\ hstate[3] = "live"
    /\ hazard[3] = 3
    /\ peak = 3

\* A step of the drop of handle a: the store to alive, a step of one of its gc
\* calls, or a step of the teardown test.
DropStep(a) ==
    /\ hstate[a] = "dropping" \/ (hstate[a] = "live" /\ hstate'[a] = "dropping")
    /\ pc'[a] # pc[a] \/ idx'[a] # idx[a]

\* Some handle other than a has not begun its drop.
OtherLive(a) == \E b \in Handles \ {a} : hstate[b] = "live"

\* The nodes in the retire list of handle a.
Retired(a) == {to_free[a][i] : i \in 1..Len(to_free[a])}

\* C13: a step of the drop of a handle, taken while another handle is live,
\* leaves head and the nodes and values linked from it as they are, frees only
\* nodes of the dropped handle's retire list and does not drop the Stack box;
\* and once a handle has been dropped, the pops of the live handles return the
\* value the sequential stack has on top and the values linked from head are
\* those of the sequential stack.
C13_ReleaseIsolated ==
    /\ [][\A a \in Handles : (DropStep(a) /\ OtherLive(a)) =>
              /\ head' = head
              /\ Chain' = Chain
              /\ ChainVals' = ChainVals
              /\ live' \subseteq live
              /\ (live \ live') \subseteq Retired(a)
              /\ torn' = torn]_vars
    /\ []((\E a \in Handles : hstate[a] = "gone") =>
              /\ Quiescent => ChainVals = abs
              /\ \A b \in Handles :
                    (hstate[b] = "live" /\ pc[b] = "pop_ret" /\ ret[b] # None)
                        => ret[b] = expect[b])

\* C14: drop returns only with an empty retire list, and a drop that has begun
\* returns.
C14_ReleaseCompletes ==
    /\ [][\A h \in Handles :
              (hstate[h] = "dropping" /\ hstate'[h] = "gone") => to_free[h] = <<>>]_vars
    /\ \A h \in Handles : (hstate[h] = "dropping") ~> (hstate[h] = "gone")

\* The steps in which the compare-and-exchange of a push or pop fails (the loop
\* is repeated) and succeeds, and the step in which a push or pop reads head.
CasFails(h) ==
    \/ pc[h] = "push_cas" /\ pc'[h] = "push_load"
    \/ pc[h] = "pop_cas" /\ pc'[h] = "pop_clear"
CasSucceeds(h) ==
    \/ pc[h] = "push_cas" /\ pc'[h] = "idle"
    \/ pc[h] = "pop_cas" /\ pc'[h] = "pop_data"
ReadsHead(h) == (pc[h] = "push_load" /\ pc'[h] = "push_cas") \/ LoadsHead(h)

\* h is inside a push or a pop.
InOp(h) == pc[h] \in PushPcs \cup PopPcs

\* C15: a push or pop repeats its loop only when head differs from the value
\* it read, and head changes only in a successful compare-and-exchange of a
\* push or pop (of another handle, as a handle runs one operation at a time);
\* and whatever the other handles do, stalled or not, a push or pop of a handle
\* that keeps being scheduled completes, the operations being finitely many.
C15_LockFree ==
    /\ [][/\ \A h \in Handles :
                /\ ReadsHead(h) => snap'[h] = head
                /\ CasFails(h) => (head # snap[h] /\ head' = head)
          /\ head' # head =>
                \E g \in Handles : CasSucceeds(g) /\ \A h \in Handles \ {g} : pc'[h] = pc[h]]_vars
    /\ \A h \in Handles : WF_vars(Step(h)) => (InOp(h) ~> (pc[h] = "idle"))

\* a pop is about to repeat its loop: since it read head, another handle has
\* pushed a node on top of the node it read
C15_Witness ==
    \E h \in Handles :
        /\ pc[h] = "pop_clear"
        /\ head # snap[h]
        /\ head \in live
        /\ tail[head] = snap[h]
        /\ Cardinality(Existing) = 2

\* The steps of a gc call of handle h: the read lock is taken, one record of the
\* registry is read, the retire list is partitioned.
GcEnters(h) == pc[h] \in {"idle", "drop_gc"} /\ pc'[h] = "gc_scan"
GcReads(h) == pc[h] = "gc_scan" /\ idx'[h] = idx[h] + 1
GcSweeps(h) == pc[h] = "gc_scan" /\ pc'[h] # "gc_scan"

\* C16: gc reads the registry only with a non-empty retire list; its snapshot
\* is made of one read of every registry entry, in order, and holds the address
\* published by each record read as alive; it then keeps exactly the retired
\* nodes found in the snapshot, in their order, and frees exactly the others;
\* no step of gc changes head, the link of a node that stays allocated, a
\* hazard record or another handle's retire list.
C16_GcPartition ==
    [][\A h \in Handles :
          /\ GcEnters(h) => (to_free[h] # <<>> /\ scanned'[h] = {} /\ idx'[h] = 1)
          /\ GcReads(h) =>
                /\ idx[h] <= regLen
                /\ scanned'[h] = scanned[h] \cup (IF alive[idx[h]] THEN {ptr[idx[h]]} ELSE {})
          /\ GcSweeps(h) =>
                /\ idx[h] = regLen + 1
                /\ to_free'[h] = SelectSeq(to_free[h], LAMBDA a : a \in scanned[h])
                /\ live' = live \ (Retired(h) \ scanned[h])
          /\ (GcEnters(h) \/ GcReads(h) \/ GcSweeps(h)) =>
                /\ head' = head
                /\ \A a \in live' : tail'[a] = tail[a]
                /\ alive' = alive
                /\ ptr' = ptr
                /\ \A g \in Handles \ {h} : to_free'[g] = to_free[g]]_vars

\* A step of a push or pop of handle h.
OpStep(h) == pc'[h] # pc[h] /\ (InOp(h) \/ pc'[h] \in PushPcs \cup PopPcs)

\* The step in which the pop of h moves the node it unlinked to its retire list.
Retires(h) == pc[h] = "pop_data" /\ pc'[h] = "pop_ret"

\* C17: the successful compare-and-exchange of a pop takes the node `snapshot`
\* off head and changes no retire list; the pop then appends that node, once,
\* to its own retire list; no step of a push or pop frees a node; and a retire
\* list gets a new entry in no other step.
C17_PopOnlyUnlinks ==
    [][\A h \in Handles :
          /\ (pc[h] = "pop_cas" /\ pc'[h] = "pop_data") =>
                /\ snap[h] = head
                /\ head' = nxt[h]
                /\ to_free' = to_free
          /\ (pc[h] = "pop_data" /\ ~Retires(h)) => snap'[h] = snap[h]
          /\ Retires(h) =>
                /\ to_free'[h] = Append(to_free[h], snap[h])
                /\ \A g \in Handles \ {h} : to_free'[g] = to_free[g]
          /\ OpStep(h) => live \subseteq live'
          /\ (Len(to_free'[h]) > Len(to_free[h]) \/ ~(Retired(h)' \subseteq Retired(h)))
                => Retires(h)]_vars

\* a pop has returned a value with two nodes in its retire list, both still
\* allocated, and another node linked from head
C17_Witness ==
    \E h \in Handles :
        /\ pc[h] = "pop_ret"
        /\ ret[h] # None
        /\ Len(to_free[h]) = 2
        /\ Retired(h) \subseteq live
        /\ head \in live \ Retired(h)

\* The step in which the drop of h evaluates the all-dead test on the registry.
ChecksRegistry(h) == pc[h] = "drop_check" /\ pc'[h] = "drop_unlock"

\* C18: once the Stack box has been dropped, no step reads head, takes or
\* releases the registry lock, reads the registry, or drops the box again.
C18_NoAccessAfterTeardown ==
    [][torn > 0 =>
          /\ torn' = torn
          /\ lockW' = lockW
          /\ lockR' = lockR
          /\ \A h \in Handles : ~ReadsHead(h) /\ ~GcReads(h) /\ ~ChecksRegistry(h)]_vars

\* How many entries of the retire lists hold the address a.
Occurrences(a) ==
    Cardinality({<<h, i>> \in Handles \X (1..(MaxPush + 1)) :
                    i <= Len(to_free[h]) /\ to_free[h][i] = a})

\* C19: an address is in the retire lists at most once, every retired node is
\* still allocated, and gc never drops a node that is not allocated.
C19_NoDoubleFree ==
    /\ [](\A a \in Addr : Occurrences(a) <= 1)
    /\ [](\A h \in Handles : Retired(h) \subseteq live)
    /\ [][\A h \in Handles : GcSweeps(h) => (Retired(h) \ scanned[h]) \subseteq live]_vars

\* The address the record of handle h publishes.
Published(h) == ptr[hazard[h]]

\* C20: between its operations a live handle's record publishes null or a node
\* of the handle's own retire list; the pop that retires a node leaves that
\* node published; a pop whose compare-and-exchange failed stores null before
\* it reads head again; and the record of a live handle is written only by
\* the hazard store and the clearing store of that handle's pop.
C20_PublishesOwnRetired ==
    /\ [](\A h \in Handles : Ready(h) => (Published(h) = Null \/ Published(h) \in Retired(h)))
    /\ [][\A h \in Handles :
              /\ Retires(h) => (Published(h) = snap[h] /\ ptr' = ptr)
              /\ (pc[h] = "pop_clear" /\ pc'[h] # pc[h]) =>
                    (pc'[h] = "pop_load" /\ ptr'[hazard[h]] = Null)
              /\ (pc[h] = "pop_cas" /\ pc'[h] = "pop_load") => FALSE
              /\ (hstate[h] = "live" /\ hstate'[h] = "live" /\ ptr'[hazard[h]] # Published(h)) =>
                    pc[h] \in {"pop_publish", "pop_clear"}]_vars

\* a handle between operations still publishes the node of its latest pop,
\* which a gc call of the handle has kept while freeing an older one, and
\* another handle has pushed since
C20_Witness ==
    \E h \in Handles :
        /\ Ready(h)
        /\ to_free[h] = <<Published(h)>>
        /\ \E a \in Addr : a \notin live /\ freedBy[a] = h
        /\ head # Null
        /\ Cardinality(Existing) = 2
====
